---- MODULE Spec2Model ----
(***************************************************************************)
(* A model of gaol's Linux backend: the seccomp-BPF filter compiler        *)
(* (platform/linux/seccomp.rs), the namespace/chroot jail builder          *)
(* (platform/linux/namespace.rs) and the profile they both read            *)
(* (profile.rs).  Numbers are those of the x86_64 build.                   *)
(***************************************************************************)
EXTENDS Integers, Sequences, FiniteSets, TLC

VARIABLES
    profile,     \* the Profile handed to the sandbox
    program,     \* Filter.program, <<>> before Filter::new
    data,        \* the seccomp_data record of the syscall being entered
    verdict,     \* the word the installed program returned for it
    path,        \* the instructions the kernel visited to get there
    pc,          \* where the activation is
    opIndex,     \* ChrootJail::new: the operation its loop is at (1-based)
    compIndex,   \* bind_mount: the component its mkdir loop is at (1-based)
    jailDir,     \* ChrootJail.directory, <<>> before TempDir::new
    entries,     \* the files and directories created so far
    calls,       \* the kernel calls made so far, in order, with what they returned
    jailResult,  \* what namespace::activate returned
    result,      \* what ChildSandbox::activate returned
    noNewPrivs,  \* the process's no_new_privs bit
    installed,   \* the program in the process's seccomp slot, <<>> if none
    errno,       \* the thread's errno: the error number of its last failed call
    caps,        \* the process's capability sets
    cwd          \* the process's working directory, as a path of the host

filterVars == <<profile, program, data, verdict, path>>
jailVars == <<pc, opIndex, compIndex, jailDir, entries, calls, jailResult, result,
              noNewPrivs, installed, errno, caps, cwd>>
vars == <<profile, program, data, verdict, path, pc, opIndex, compIndex, jailDir,
          entries, calls, jailResult, result, noNewPrivs, installed, errno, caps,
          cwd>>

(***************************************************************************)
(* Bounds of the model.                                                    *)
(***************************************************************************)
\* longest operation list of a profile handed to the filter compiler
MaxFilterOps == 2
\* longest operation list of a profile handed to the activation
MaxOps == 2

(***************************************************************************)
(* seccomp.rs: constants.                                                  *)
(***************************************************************************)
SECCOMP_RET_KILL == 0
SECCOMP_RET_ALLOW == 2147418112

LD == 0
JMP == 5
RET == 6
W == 0
ABS == 32
JEQ == 16
JSET == 64
K == 0

SYSCALL_NR_OFFSET == 0
ARCH_NR_OFFSET == 4
ARG_0_OFFSET == 16
ARG_1_OFFSET == 24
ARG_2_OFFSET == 32

AF_UNIX == 1
AF_INET == 2
AF_INET6 == 10
AF_NETLINK == 16

CLONE_VM == 256
CLONE_FS == 512
CLONE_FILES == 1024
CLONE_SIGHAND == 2048
CLONE_THREAD == 65536
CLONE_SYSVSEM == 262144
CLONE_SETTLS == 524288
CLONE_PARENT_SETTID == 1048576
CLONE_CHILD_CLEARTID == 2097152

O_RDONLY == 0
O_NONBLOCK == 2048
O_NOCTTY == 256
O_CLOEXEC == 524288

FIONREAD == 21531

NETLINK_ROUTE == 0

NR_read == 0
NR_write == 1
NR_open == 2
NR_close == 3
NR_stat == 4
NR_fstat == 5
NR_poll == 7
NR_lseek == 8
NR_mmap == 9
NR_mprotect == 10
NR_munmap == 11
NR_brk == 12
NR_rt_sigreturn == 15
NR_ioctl == 16
NR_access == 21
NR_madvise == 28
NR_socket == 41
NR_connect == 42
NR_sendto == 44
NR_recvfrom == 45
NR_recvmsg == 47
NR_bind == 49
NR_getsockname == 51
NR_clone == 56
NR_exit == 60
NR_readlink == 89
NR_getuid == 102
NR_sigaltstack == 131
NR_futex == 202
NR_sched_getaffinity == 204
NR_exit_group == 231
NR_set_robust_list == 0
NR_sendmmsg == 307
NR_unknown_318 == 318

EM_X86_64 == 62

(***************************************************************************)
(* 32-bit words.  A u32 is the pair <<high 16 bits, low 16 bits>>, so that *)
(* every word of the program (0x8000_0000 and above included) is exact.    *)
(***************************************************************************)
TwoTo16 == 256 * 256

RECURSIVE BitAnd(_, _)
\* a & b on naturals
BitAnd(a, b) ==
    IF a = 0 \/ b = 0 THEN 0
    ELSE (a % 2) * (b % 2) + 2 * BitAnd(a \div 2, b \div 2)

RECURSIVE BitOr(_, _)
\* a | b on naturals
BitOr(a, b) ==
    IF a = 0 THEN b
    ELSE IF b = 0 THEN a
    ELSE (IF a % 2 = 1 \/ b % 2 = 1 THEN 1 ELSE 0) + 2 * BitOr(a \div 2, b \div 2)

\* `x as u32` for a non-negative c_int or u32 constant x
AsU32(x) == <<(x \div TwoTo16) % TwoTo16, x % TwoTo16>>

\* a & b, a | b, !a on u32
And32(a, b) == <<BitAnd(a[1], b[1]), BitAnd(a[2], b[2])>>
Or32(a, b) == <<BitOr(a[1], b[1]), BitOr(a[2], b[2])>>
Not32(a) == <<(TwoTo16 - 1) - a[1], (TwoTo16 - 1) - a[2]>>
Zero32 == <<0, 0>>

\* `x as u8` for a usize x
AsU8(x) == x % 256

\* __AUDIT_ARCH_64BIT = 0x8000_0000, __AUDIT_ARCH_LE = 0x4000_0000
AUDIT_ARCH_64BIT == <<32768, 0>>
AUDIT_ARCH_LE == <<16384, 0>>
AUDIT_ARCH_X86_64 == Or32(Or32(AsU32(EM_X86_64), AUDIT_ARCH_64BIT), AUDIT_ARCH_LE)
\* cfg(target_arch = "x86_64")
ARCH_NR == AUDIT_ARCH_X86_64

(***************************************************************************)
(* profile.rs: operations and the profile.                                 *)
(***************************************************************************)
Operation(op, pat, p) == [path |-> p, op |-> op, pat |-> pat]

FileReadAll(pat, p) == Operation("FileReadAll", pat, p)
FileReadMetadata(pat, p) == Operation("FileReadMetadata", pat, p)
NetworkOutbound(pat, p) == Operation("NetworkOutbound", pat, p)
SystemInfoRead == Operation("SystemInfoRead", "None", <<>>)
SystemSocket == Operation("SystemSocket", "None", <<>>)
PlatformSpecific == Operation("PlatformSpecific", "None", <<>>)

\* Profile::new keeps the list it is given
Profile_new(allowed_operations) == [allowed_operations |-> allowed_operations]

allowed_operations(p) == p.allowed_operations

\* profile.allowed_operations().iter().any(|operation| match *operation { kind(_) => true, _ => false })
AnyOperation(p, kind) ==
    \E i \in 1..Len(allowed_operations(p)) : allowed_operations(p)[i].op = kind

(***************************************************************************)
(* seccomp.rs: instructions.                                               *)
(***************************************************************************)
\* {code: u16, jt: u8, jf: u8, k: u32}
sock_filter(code, jt, jf, k) == [code |-> code, jt |-> jt, jf |-> jf, k |-> k]

ALLOW_SYSCALL == sock_filter(RET + K, 0, 0, AsU32(SECCOMP_RET_ALLOW))
KILL_PROCESS == sock_filter(RET + K, 0, 0, AsU32(SECCOMP_RET_KILL))
EXAMINE_SYSCALL == sock_filter(LD + W + ABS, 0, 0, AsU32(SYSCALL_NR_OFFSET))
EXAMINE_ARG_0 == sock_filter(LD + W + ABS, 0, 0, AsU32(ARG_0_OFFSET))
EXAMINE_ARG_1 == sock_filter(LD + W + ABS, 0, 0, AsU32(ARG_1_OFFSET))
EXAMINE_ARG_2 == sock_filter(LD + W + ABS, 0, 0, AsU32(ARG_2_OFFSET))
VALIDATE_ARCHITECTURE_0 == sock_filter(LD + W + ABS, 0, 0, AsU32(ARCH_NR_OFFSET))
\* (mutant) the architecture test skips the kill on a mismatch too
VALIDATE_ARCHITECTURE_1_SkipsAlways == sock_filter(JMP + JEQ + K, 1, 1, ARCH_NR)

VALIDATE_ARCHITECTURE_1 == sock_filter(JMP + JEQ + K, 1, 0, ARCH_NR)
VALIDATE_ARCHITECTURE_2 == KILL_PROCESS

FILTER_PROLOGUE ==
    <<VALIDATE_ARCHITECTURE_0, VALIDATE_ARCHITECTURE_1, VALIDATE_ARCHITECTURE_2>>

\* (mutant) the program ends by allowing
FILTER_EPILOGUE_Allows == <<ALLOW_SYSCALL>>

FILTER_EPILOGUE == <<KILL_PROCESS>>

\* (mutant) the table without futex
ALLOWED_SYSCALLS_NoFutex ==
    <<NR_brk, NR_close, NR_exit, NR_exit_group, NR_getuid, NR_madvise,
      NR_mmap, NR_mprotect, NR_munmap, NR_poll, NR_read, NR_recvfrom, NR_recvmsg,
      NR_rt_sigreturn, NR_sched_getaffinity, NR_sendmmsg, NR_sendto,
      NR_set_robust_list, NR_sigaltstack, NR_unknown_318, NR_write>>

ALLOWED_SYSCALLS ==
    <<NR_brk, NR_close, NR_exit, NR_exit_group, NR_futex, NR_getuid, NR_madvise,
      NR_mmap, NR_mprotect, NR_munmap, NR_poll, NR_read, NR_recvfrom, NR_recvmsg,
      NR_rt_sigreturn, NR_sched_getaffinity, NR_sendmmsg, NR_sendto,
      NR_set_robust_list, NR_sigaltstack, NR_unknown_318, NR_write>>

ALLOWED_SYSCALLS_FOR_FILE_READ_METADATA ==
    <<NR_access, NR_fstat, NR_readlink, NR_stat>>

ALLOWED_SYSCALLS_FOR_FILE_READ == <<NR_lseek>>

ALLOWED_SYSCALLS_FOR_NETWORK_OUTBOUND == <<NR_bind, NR_connect>>

ALLOWED_SYSCALLS_FOR_SYSTEM_SOCKET == <<NR_getsockname>>

(***************************************************************************)
(* seccomp.rs: the assembler.  A Filter is its program, a sequence of      *)
(* instructions; index i of the Vec is position i + 1 here.  A closure     *)
(* `then` is given as the instructions it pushes: every offset it patches  *)
(* is relative, so they do not depend on where they are pushed.            *)
(***************************************************************************)
\* fn allow_this_syscall: self.program.push(ALLOW_SYSCALL)
allow_this_syscall(prog) == Append(prog, ALLOW_SYSCALL)

\* (mutant) the offset is one too long: len - index
if_k_is_OneTooFar(prog, value, then) ==
    LET index == Len(prog)
        after == Append(prog, sock_filter(JMP + JEQ + K, 0, 0, value)) \o then
    IN  [after EXCEPT ![index + 1].jf = AsU8(Len(after) - index)]

\* (mutant) patches the taken offset, as if_k_hasnt_set does
if_k_is_PatchesJt(prog, value, then) ==
    LET index == Len(prog)
        after == Append(prog, sock_filter(JMP + JEQ + K, 0, 0, value)) \o then
    IN  [after EXCEPT ![index + 1].jt = AsU8(Len(after) - index - 1)]

\* fn if_k_is: push JEQ, run then, patch jf to len - index - 1
if_k_is(prog, value, then) ==
    LET index == Len(prog)
        after == Append(prog, sock_filter(JMP + JEQ + K, 0, 0, value)) \o then
    IN  [after EXCEPT ![index + 1].jf = AsU8(Len(after) - index - 1)]

\* (mutant) patches the not-taken offset, as if_k_is does
if_k_hasnt_set_PatchesJf(prog, value, then) ==
    LET index == Len(prog)
        after == Append(prog, sock_filter(JMP + JSET + K, 0, 0, value)) \o then
    IN  [after EXCEPT ![index + 1].jf = AsU8(Len(after) - index - 1)]

\* fn if_k_hasnt_set: push JSET, run then, patch jt to len - index - 1
if_k_hasnt_set(prog, value, then) ==
    LET index == Len(prog)
        after == Append(prog, sock_filter(JMP + JSET + K, 0, 0, value)) \o then
    IN  [after EXCEPT ![index + 1].jt = AsU8(Len(after) - index - 1)]

if_syscall_is(prog, number, then) ==
    if_k_is(Append(prog, EXAMINE_SYSCALL), AsU32(number), then)
if_arg0_is(prog, value, then) == if_k_is(Append(prog, EXAMINE_ARG_0), value, then)
\* (mutant) the test of argument 1 loads argument 0
if_arg1_is_ExaminesArg0(prog, value, then) ==
    if_k_is(Append(prog, EXAMINE_ARG_0), value, then)

if_arg1_is(prog, value, then) == if_k_is(Append(prog, EXAMINE_ARG_1), value, then)
if_arg1_hasnt_set(prog, value, then) ==
    if_k_hasnt_set(Append(prog, EXAMINE_ARG_1), value, then)
if_arg2_is(prog, value, then) == if_k_is(Append(prog, EXAMINE_ARG_2), value, then)

RECURSIVE allow_syscalls(_, _)
\* fn allow_syscalls: for each syscall, if_syscall_is(syscall, allow_this_syscall)
allow_syscalls(prog, syscalls) ==
    IF syscalls = <<>> THEN prog
    ELSE LET next == if_syscall_is(prog, Head(syscalls), allow_this_syscall(<<>>))
         IN  \* (the test makes TLC compute next before it goes on)
             IF Len(next) > 0 THEN allow_syscalls(next, Tail(syscalls)) ELSE next

\* !(O_RDONLY | O_CLOEXEC | O_NOCTTY | O_NONBLOCK) as u32
OpenFlagsMask == Not32(AsU32(BitOr(BitOr(BitOr(O_RDONLY, O_CLOEXEC), O_NOCTTY), O_NONBLOCK)))

\* (mutant) the thread flags without CLONE_SYSVSEM
CloneThreadFlags_NoSysvsem ==
    AsU32(BitOr(CLONE_VM, BitOr(CLONE_FS, BitOr(CLONE_FILES, BitOr(CLONE_SIGHAND,
          BitOr(CLONE_THREAD, BitOr(CLONE_SETTLS,
          BitOr(CLONE_PARENT_SETTID, CLONE_CHILD_CLEARTID))))))))

\* (CLONE_VM | ... | CLONE_CHILD_CLEARTID) as u32
CloneThreadFlags ==
    AsU32(BitOr(CLONE_VM, BitOr(CLONE_FS, BitOr(CLONE_FILES, BitOr(CLONE_SIGHAND,
          BitOr(CLONE_THREAD, BitOr(CLONE_SYSVSEM, BitOr(CLONE_SETTLS,
          BitOr(CLONE_PARENT_SETTID, CLONE_CHILD_CLEARTID)))))))))

\* (mutant) FileReadAll enables the metadata syscalls too
FilterFileReadMetadata_OnAnyFileRead(prog, p) ==
    IF AnyOperation(p, "FileReadMetadata") \/ AnyOperation(p, "FileReadAll")
    THEN allow_syscalls(prog, ALLOWED_SYSCALLS_FOR_FILE_READ_METADATA)
    ELSE prog

\* Filter::new, the FileReadMetadata block
FilterFileReadMetadata(prog, p) ==
    IF AnyOperation(p, "FileReadMetadata")
    THEN allow_syscalls(prog, ALLOWED_SYSCALLS_FOR_FILE_READ_METADATA)
    ELSE prog

\* Filter::new, the FileReadAll block: lseek, open without write flags, ioctl FIONREAD
FilterFileReadAll(prog, p) ==
    IF AnyOperation(p, "FileReadAll")
    THEN LET a == allow_syscalls(prog, ALLOWED_SYSCALLS_FOR_FILE_READ)
             b == if_syscall_is(a, NR_open,
                      if_arg1_hasnt_set(<<>>, OpenFlagsMask, allow_this_syscall(<<>>)))
         IN  if_syscall_is(b, NR_ioctl,
                 if_arg1_is(<<>>, AsU32(FIONREAD), allow_this_syscall(<<>>)))
    ELSE prog

\* (mutant) SystemSocket enables bind and connect too
FilterNetworkOutbound_OnSystemSocket(prog, p) ==
    IF AnyOperation(p, "NetworkOutbound") \/ AnyOperation(p, "SystemSocket")
    THEN allow_syscalls(prog, ALLOWED_SYSCALLS_FOR_NETWORK_OUTBOUND)
    ELSE prog

\* Filter::new, the NetworkOutbound block
FilterNetworkOutbound(prog, p) ==
    IF AnyOperation(p, "NetworkOutbound")
    THEN allow_syscalls(prog, ALLOWED_SYSCALLS_FOR_NETWORK_OUTBOUND)
    ELSE prog

\* (mutant) any netlink protocol
SocketBody_AnyNetlink ==
    LET a == if_arg0_is(<<>>, AsU32(AF_UNIX), allow_this_syscall(<<>>))
        b == if_arg0_is(a, AsU32(AF_INET), allow_this_syscall(<<>>))
        c == if_arg0_is(b, AsU32(AF_INET6), allow_this_syscall(<<>>))
    IN  if_arg0_is(c, AsU32(AF_NETLINK), allow_this_syscall(<<>>))

\* the closure given to if_syscall_is(NR_socket, ..)
SocketBody ==
    LET a == if_arg0_is(<<>>, AsU32(AF_UNIX), allow_this_syscall(<<>>))
        b == if_arg0_is(a, AsU32(AF_INET), allow_this_syscall(<<>>))
        c == if_arg0_is(b, AsU32(AF_INET6), allow_this_syscall(<<>>))
    IN  if_arg0_is(c, AsU32(AF_NETLINK),
            if_arg2_is(<<>>, AsU32(NETLINK_ROUTE), allow_this_syscall(<<>>)))

\* Filter::new, the SystemSocket block
FilterSystemSocket(prog, p) ==
    IF AnyOperation(p, "SystemSocket")
    THEN if_syscall_is(allow_syscalls(prog, ALLOWED_SYSCALLS_FOR_SYSTEM_SOCKET),
                       NR_socket, SocketBody)
    ELSE prog

\* Filter::new, the clone block: only normal threads
FilterClone(prog) ==
    if_syscall_is(prog, NR_clone,
        if_arg0_is(<<>>, CloneThreadFlags, allow_this_syscall(<<>>)))

\* Filter::new
Filter_new(p) ==
    LET a == allow_syscalls(FILTER_PROLOGUE, ALLOWED_SYSCALLS)
        b == FilterFileReadMetadata(a, p)
        c == FilterFileReadAll(b, p)
        d == FilterNetworkOutbound(c, p)
        e == FilterSystemSocket(d, p)
        f == FilterClone(e)
    IN  f \o FILTER_EPILOGUE

(***************************************************************************)
(* The kernel's side of the filter: a seccomp_data record and the          *)
(* classic-BPF machine that runs the installed program on it.              *)
(***************************************************************************)
seccomp_data(nr, arch, args) == [nr |-> nr, arch |-> arch, args |-> args]

\* a u64 argument register: its high and its low word
U64(hi, lo) == [hi |-> hi, lo |-> lo]
Lo32(x) == x.lo
Hi32(x) == x.hi

\* BPF_LD|BPF_W|BPF_ABS on the little-endian record: nr at 0, arch at 4,
\* six u64 arguments from 16
LoadWord(d, k) ==
    LET off == k[2]
    IN  IF k = AsU32(SYSCALL_NR_OFFSET) THEN d.nr
        ELSE IF k = AsU32(ARCH_NR_OFFSET) THEN d.arch
        ELSE IF /\ k[1] = 0 /\ off >= ARG_0_OFFSET
                /\ off < ARG_0_OFFSET + 8 * Len(d.args) /\ off % 4 = 0
             THEN LET i == (off - ARG_0_OFFSET) \div 8
                  IN  IF (off - ARG_0_OFFSET) % 8 = 0 THEN Lo32(d.args[i + 1])
                      ELSE Hi32(d.args[i + 1])
        ELSE Zero32

\* the result of a run that reaches no return instruction
NoReturn == <<0 - 1, 0 - 1>>

\* the machine before its first instruction: position (1-based), accumulator,
\* the positions visited, and the word returned once it is done
BpfStart == [pc |-> 1, acc |-> Zero32, visited |-> <<>>, done |-> FALSE, ret |-> NoReturn]

\* one instruction.  Running off the program returns nothing (NoReturn): the
\* kernel refuses to load such a program.
BpfStep(prog, d, c) ==
    IF c.done THEN c
    ELSE IF c.pc > Len(prog) THEN [c EXCEPT !.done = TRUE]
    ELSE LET ins == prog[c.pc]
             seen == Append(c.visited, c.pc)
         IN  IF ins.code = RET + K
             THEN [c EXCEPT !.done = TRUE, !.ret = ins.k, !.visited = seen]
             ELSE IF ins.code = LD + W + ABS
             THEN [c EXCEPT !.pc = c.pc + 1, !.acc = LoadWord(d, ins.k), !.visited = seen]
             ELSE IF ins.code = JMP + JEQ + K
             THEN [c EXCEPT !.pc = c.pc + 1 + (IF c.acc = ins.k THEN ins.jt ELSE ins.jf),
                            !.visited = seen]
             ELSE IF ins.code = JMP + JSET + K
             THEN [c EXCEPT !.pc = c.pc + 1 + (IF And32(c.acc, ins.k) # Zero32
                                                THEN ins.jt ELSE ins.jf),
                            !.visited = seen]
             ELSE [c EXCEPT !.done = TRUE, !.visited = seen]

RECURSIVE BpfSteps(_, _, _, _)
\* n instructions from c, as two halves (classic BPF only jumps forward, so a
\* run takes at most Len(prog) + 1 steps)
BpfSteps(prog, d, c, n) ==
    IF n <= 1 THEN BpfStep(prog, d, c)
    ELSE LET mid == BpfSteps(prog, d, c, n \div 2)
         IN  IF mid.done THEN mid ELSE BpfSteps(prog, d, mid, n - (n \div 2))

RunFilter(prog, d) == BpfSteps(prog, d, BpfStart, Len(prog) + 1)

(***************************************************************************)
(* namespace.rs: constants.  Mount flags are u32 words, MS_MGC_VAL being   *)
(* 0xc0ed_0000.                                                            *)
(***************************************************************************)
CLONE_NEWNS == 131072
CLONE_NEWUTS == 67108864
CLONE_NEWIPC == 134217728
CLONE_NEWUSER == 268435456
CLONE_NEWNET == 1073741824

MS_NOATIME == 1024
MS_BIND == 4096
MS_REC == 16384
MS_MGC_VAL == <<49389, 0>>

\* _LINUX_CAPABILITY_VERSION_3 = 0x20080522
LINUX_CAPABILITY_VERSION_3 == <<8200, 1314>>

\* seccomp.rs: the prctl options of Filter::activate
PR_SET_SECCOMP == 22
PR_SET_NO_NEW_PRIVS == 38
SECCOMP_MODE_FILTER == 2

(***************************************************************************)
(* Paths (std::old_path): the sequence of components, an absolute path     *)
(* starting with the root "/".                                             *)
(***************************************************************************)
IsAbsolute(p) == p # <<>> /\ p[1] = "/"

\* Path::components: the components after the root
Components(p) == IF IsAbsolute(p) THEN Tail(p) ELSE p

\* Path::push: an absolute argument replaces the path, a relative one is appended
PathPush(base, p) == IF IsAbsolute(p) THEN p ELSE base \o p

(***************************************************************************)
(* The host the process runs on.                                           *)
(***************************************************************************)
\* what getuid and getgid return before the namespace exists
ParentUid == "1000"
ParentGid == "1000"

\* the directory TempDir::new("gaol") makes under the temporary directory
TempDirPath == <<"/", "tmp", "gaol.XXXXXX">>

\* the kind of a path on the host: a regular file, a directory, or nothing
HostKind(p) ==
    IF p \in {<<"/", "etc", "hostname">>, <<"/", "etc", "passwd">>} THEN "file"
    ELSE IF p \in {<<"/">>, <<"/", "etc">>, <<"/", "usr">>, <<"/", "tmp">>} THEN "dir"
    ELSE "absent"

(***************************************************************************)
(* Results and the record of a kernel call.                                *)
(***************************************************************************)
NoResult == [status |-> "None", err |-> 0]
Ok == [status |-> "Ok", err |-> 0]
Err(e) == [status |-> "Err", err |-> e]

\* what a libc call returns: 0, or -1 when it failed
Ret(ok) == IF ok THEN 0 ELSE 0 - 1

\* the error numbers a failing call leaves in errno: EPERM, EINVAL
Errnos == {1, 22}

\* a libc call leaves errno alone when it succeeds and sets it when it fails
SetsErrno(ok) == errno' \in (IF ok THEN {errno} ELSE Errnos)

\* the capabilities the model tells apart; a process that has made a user
\* namespace holds all of them in it
AllCapabilities == {"CAP_SYS_ADMIN", "CAP_SYS_CHROOT", "CAP_SETUID", "CAP_SETGID"}

\* the capability sets of an unprivileged process, and those capset writes
NoCapabilities == [effective |-> {}, permitted |-> {}, inheritable |-> {}]

\* a call with its source and target paths, its flag word, the text it writes
\* and what it returned
Call(name, src, dst, flags, text, ret) ==
    [ret |-> ret, src |-> src, dst |-> dst, flags |-> flags, text |-> text,
     call |-> name]

(***************************************************************************)
(* The kernel's view of the process's directories.                         *)
(***************************************************************************)
IsPrefix(a, b) == Len(a) <= Len(b) /\ SubSeq(b, 1, Len(a)) = a

\* the process's root directory: "/" until a chroot succeeds
RootDirectory ==
    LET done == {i \in DOMAIN calls : calls[i].call = "chroot" /\ calls[i].ret = 0}
    IN  IF done = {} THEN <<"/">> ELSE calls[CHOOSE i \in done : TRUE].dst

\* where an absolute path leads from the root directory
FromRoot(root, q) == IF root = <<"/">> THEN q ELSE root \o Components(q)

\* chdir(p) of a process with this working and this root directory: "." names
\* the working directory itself, an absolute path is looked up from the root
ChangeDirectory(dir, root, p) ==
    IF p = <<".">> THEN dir
    ELSE IF IsAbsolute(p) THEN FromRoot(root, p)
    ELSE dir \o p

\* the working directories a process may start the activation in
StartDirectories == {<<"/">>, <<"/", "usr">>}

(***************************************************************************)
(* namespace.rs: Namespace.                                                *)
(***************************************************************************)
\* (mutant) the test for NetworkOutbound is the other way round
UnshareFlags_NetInverted(p) ==
    LET flags == BitOr(CLONE_FS, BitOr(CLONE_NEWUSER, BitOr(CLONE_NEWIPC,
                     BitOr(CLONE_NEWNS, CLONE_NEWUTS))))
    IN  IF AnyOperation(p, "NetworkOutbound") THEN BitOr(flags, CLONE_NEWNET)
        ELSE flags

\* Namespace::new: the flags given to unshare
UnshareFlags(p) ==
    LET flags == BitOr(CLONE_FS, BitOr(CLONE_NEWUSER, BitOr(CLONE_NEWIPC,
                     BitOr(CLONE_NEWNS, CLONE_NEWUTS))))
    IN  IF ~AnyOperation(p, "NetworkOutbound") THEN BitOr(flags, CLONE_NEWNET)
        ELSE flags

\* (mutant) a failed call is taken for a success
ResultOf_AlwaysOk(ret) == Ok

\* `if result == 0 { Ok(..) } else { Err(result) }`, the end of every step that
\* makes one libc call
ResultOf(ret) == IF ret = 0 THEN Ok ELSE Err(ret)

\* activate: `Err(_) => return Err(1)` for a failure of Namespace::init
InitError == Err(1)

\* the steps that create a path report a failure as Err(-1)
IoFailure == Err(0 - 1)

\* a step of namespace::activate failed: it returns the error at once
JailFails(e) ==
    /\ jailResult' = e
    /\ pc' = "jail_done"

\* Namespace::new: getuid, getgid, unshare(flags)
NamespaceNew ==
    /\ pc = "unshare"
    /\ \E ok \in BOOLEAN :
          /\ calls' = Append(calls, Call("unshare", <<>>, <<>>,
                                         AsU32(UnshareFlags(profile)), <<>>, Ret(ok)))
          /\ SetsErrno(ok)
          /\ IF ResultOf(Ret(ok)) = Ok
             THEN /\ pc' = "setgroups"
                  /\ caps' = [caps EXCEPT !.effective = AllCapabilities,
                                          !.permitted = AllCapabilities]
                  /\ UNCHANGED jailResult
             ELSE /\ JailFails(ResultOf(Ret(ok)))
                  /\ UNCHANGED caps
    /\ UNCHANGED <<cwd, profile, program, data, verdict, path, opIndex, compIndex, jailDir,
                   entries, result, noNewPrivs, installed>>

\* File::create(file) and the write of text to it: the calls made when the
\* create succeeds or not, and the write succeeds or not
ProcWrite(file, text, created, written) ==
    IF created
    THEN <<Call("open", <<>>, file, Zero32, <<>>, 0),
           Call("write", <<>>, file, Zero32, text, Ret(written))>>
    ELSE <<Call("open", <<>>, file, Zero32, <<>>, Ret(FALSE))>>

\* one try!(..) of Namespace::init: create the file, write the text
InitStep(at, file, text, next) ==
    /\ pc = at
    /\ \E created, written \in BOOLEAN :
          /\ calls' = calls \o ProcWrite(file, text, created, written)
          /\ SetsErrno(created /\ written)
          /\ IF created /\ written
             THEN pc' = next /\ UNCHANGED jailResult
             ELSE JailFails(InitError)
    /\ UNCHANGED <<cwd, profile, program, data, verdict, path, opIndex, compIndex, jailDir,
                   entries, result, noNewPrivs, installed, caps>>

\* (mutant) the gid map is left out: after setgroups comes the uid map
NamespaceInitSetgroups_SkipsGidMap ==
    InitStep("setgroups", <<"/", "proc", "self", "setgroups">>, <<"deny">>, "uid_map")

\* Namespace::init: "deny" to setgroups, then the gid map, then the uid map
NamespaceInitSetgroups ==
    InitStep("setgroups", <<"/", "proc", "self", "setgroups">>, <<"deny">>, "gid_map")

NamespaceInitGidMap ==
    InitStep("gid_map", <<"/", "proc", "self", "gid_map">>, <<"1", ParentGid, "1">>,
             "uid_map")

NamespaceInitUidMap ==
    InitStep("uid_map", <<"/", "proc", "self", "uid_map">>, <<"1", ParentUid, "1">>,
             "setresgid")

\* a step that makes one libc call and returns Err(result) when it is not 0
LibcStep(at, call, next) ==
    /\ pc = at
    /\ calls' = Append(calls, call)
    /\ SetsErrno(call.ret = 0)
    /\ IF ResultOf(call.ret) = Ok
       THEN pc' = next /\ UNCHANGED jailResult
       ELSE JailFails(ResultOf(call.ret))
    /\ UNCHANGED <<cwd, profile, program, data, verdict, path, opIndex, compIndex, jailDir,
                   entries, result, noNewPrivs, installed, caps>>

\* switch_to_unprivileged_user: setresgid(1, 1, 1), then setresuid(1, 1, 1)
SwitchSetresgid ==
    \E ok \in BOOLEAN :
        LibcStep("setresgid",
                 Call("setresgid", <<>>, <<>>, Zero32, <<"1", "1", "1">>, Ret(ok)),
                 "setresuid")

SwitchSetresuid ==
    \E ok \in BOOLEAN :
        LibcStep("setresuid",
                 Call("setresuid", <<>>, <<>>, Zero32, <<"1", "1", "1">>, Ret(ok)),
                 "tempdir")

(***************************************************************************)
(* namespace.rs: ChrootJail.                                               *)
(***************************************************************************)
IsFileOperation(operation) == operation.op \in {"FileReadAll", "FileReadMetadata"}

RECURSIVE NextFileOperation(_, _)
\* the loop of ChrootJail::new: the next operation from i on that it acts on
\* (every other kind is `_ => {}`), Len + 1 when there is none
NextFileOperation(ops, i) ==
    IF i > Len(ops) THEN Len(ops) + 1
    ELSE IF IsFileOperation(ops[i]) THEN i
    ELSE NextFileOperation(ops, i + 1)

\* where ChrootJail::new and then activate go on with the loop at operation i:
\* bind_mount's mkdir loop (when the jail directory has a parent component), its
\* target, or, the loop over, ChrootJail::enter
PopulateAt(ops, i, dir) ==
    IF i > Len(ops) THEN "chroot"
    ELSE IF Len(Components(dir)) > 1 THEN "mkdirs"
    ELSE "target"

EntryExists(p) == \E e \in entries : e.path = p
EntryIsDirectory(p) == \E e \in entries : e.path = p /\ e.kind = "dir"

\* the loop goes on to the operation after opIndex
NextOperation ==
    LET ops == allowed_operations(profile)
        i == NextFileOperation(ops, opIndex + 1)
    IN  /\ opIndex' = i
        /\ compIndex' = 1
        /\ pc' = PopulateAt(ops, i, jailDir)

\* ChrootJail::new: TempDir::new("gaol")
JailTempDir ==
    /\ pc = "tempdir"
    /\ \E ok \in BOOLEAN :
          /\ calls' = Append(calls, Call("mkdir", <<>>, TempDirPath, Zero32, <<>>, Ret(ok)))
          /\ SetsErrno(ok)
          /\ IF ok
             THEN /\ jailDir' = TempDirPath
                  /\ pc' = "tmpfs"
                  /\ UNCHANGED jailResult
             ELSE /\ JailFails(IoFailure)
                  /\ UNCHANGED jailDir
    /\ UNCHANGED <<cwd, profile, program, data, verdict, path, opIndex, compIndex, entries,
                   result, noNewPrivs, installed, caps>>

\* ChrootJail::new: mount("tmpfs", directory, "tmpfs", MS_NOATIME, null)
JailMountTmpfs ==
    /\ pc = "tmpfs"
    /\ \E ok \in BOOLEAN :
          LET ops == allowed_operations(profile)
              first == NextFileOperation(ops, 1)
          IN  /\ calls' = Append(calls, Call("mount", <<"tmpfs">>, jailDir,
                                             AsU32(MS_NOATIME), <<"tmpfs">>, Ret(ok)))
              /\ SetsErrno(ok)
              /\ IF ResultOf(Ret(ok)) = Ok
                 THEN /\ opIndex' = first
                      /\ compIndex' = 1
                      /\ pc' = PopulateAt(ops, first, jailDir)
                      /\ UNCHANGED jailResult
                 ELSE /\ JailFails(ResultOf(Ret(ok)))
                      /\ UNCHANGED <<opIndex, compIndex>>
    /\ UNCHANGED <<cwd, profile, program, data, verdict, path, jailDir, entries, result,
                   noNewPrivs, installed, caps>>

\* bind_mount: destination_path after the first n components of the jail
\* directory's own path were pushed onto it
BindDestination(dir, n) == dir \o SubSeq(Components(dir), 1, n)

\* bind_mount, "Create all intermediate directories": one mkdir of the loop over
\* the components of the jail directory but the last.  mkdir fails on a path
\* that exists.
BindMountMkdir ==
    /\ pc = "mkdirs"
    /\ LET destination == BindDestination(jailDir, compIndex)
           last == Len(Components(jailDir)) - 1
       IN  \E ok \in BOOLEAN :
              /\ ok => ~EntryExists(destination)
              /\ calls' = Append(calls, Call("mkdir", <<>>, destination, Zero32, <<>>,
                                             Ret(ok)))
              /\ SetsErrno(ok)
              /\ IF ok
                 THEN /\ entries' = entries \cup {[path |-> destination, kind |-> "dir"]}
                      /\ compIndex' = compIndex + 1
                      /\ pc' = IF compIndex + 1 > last THEN "target" ELSE "mkdirs"
                      /\ UNCHANGED jailResult
                 ELSE /\ JailFails(IoFailure)
                      /\ UNCHANGED <<entries, compIndex>>
    /\ UNCHANGED <<cwd, profile, program, data, verdict, path, opIndex, jailDir, result,
                   noNewPrivs, installed, caps>>

\* bind_mount, "Create the mount file or directory": stat the source, then mkdir
\* for a directory and File::create for anything else
BindMountTarget ==
    /\ pc = "target"
    /\ LET source == allowed_operations(profile)[opIndex].path
           destination == BindDestination(jailDir, Len(Components(jailDir)))
           kind == HostKind(source)
       IN  \E found, ok \in BOOLEAN :
              /\ found => kind # "absent"
              /\ ok => found
              /\ ok /\ kind = "dir" => ~EntryExists(destination)
              /\ ok /\ kind = "file" => ~EntryIsDirectory(destination)
              /\ calls' = calls \o
                    (<<Call("stat", source, <<>>, Zero32, <<>>, Ret(found))>> \o
                     (IF ~found THEN <<>>
                      ELSE IF kind = "dir"
                      THEN <<Call("mkdir", <<>>, destination, Zero32, <<>>, Ret(ok))>>
                      ELSE <<Call("open", <<>>, destination, Zero32, <<>>, Ret(ok))>>))
              /\ SetsErrno(ok)
              /\ IF ok
                 THEN /\ entries' = entries \cup {[path |-> destination, kind |-> kind]}
                      /\ pc' = "bind"
                      /\ UNCHANGED jailResult
                 ELSE /\ JailFails(IoFailure)
                      /\ UNCHANGED entries
    /\ UNCHANGED <<cwd, profile, program, data, verdict, path, opIndex, compIndex, jailDir,
                   result, noNewPrivs, installed, caps>>

\* bind_mount: the target of the mount, destination_path.push(source_path)
BindMountPoint(dir, source) ==
    PathPush(BindDestination(dir, Len(Components(dir))), source)

\* bind_mount, "Create the bind mount":
\* mount(source, destination, "bind", MS_MGC_VAL | MS_BIND | MS_REC, null);
\* a FileReadMetadata operation goes on to disallow_reading
BindMountMount ==
    /\ pc = "bind"
    /\ LET operation == allowed_operations(profile)[opIndex]
           source == operation.path
       IN  \E ok \in BOOLEAN :
              /\ calls' = Append(calls,
                     Call("mount", source, BindMountPoint(jailDir, source),
                          Or32(MS_MGC_VAL, AsU32(BitOr(MS_BIND, MS_REC))), <<"bind">>,
                          Ret(ok)))
              /\ SetsErrno(ok)
              /\ IF ResultOf(Ret(ok)) = Ok
                 THEN /\ IF operation.op = "FileReadMetadata"
                         THEN pc' = "chmod" /\ UNCHANGED <<opIndex, compIndex>>
                         ELSE NextOperation
                      /\ UNCHANGED jailResult
                 ELSE /\ JailFails(ResultOf(Ret(ok)))
                      /\ UNCHANGED <<opIndex, compIndex>>
    /\ UNCHANGED <<cwd, profile, program, data, verdict, path, jailDir, entries, result,
                   noNewPrivs, installed, caps>>

\* disallow_reading: the path it changes the mode of
DisallowReadingPath(dir, source) == PathPush(dir, source)

\* disallow_reading: chmod(destination, 0)
JailDisallowReading ==
    /\ pc = "chmod"
    /\ LET source == allowed_operations(profile)[opIndex].path
       IN  \E ok \in BOOLEAN :
              /\ calls' = Append(calls, Call("chmod", <<>>,
                                             DisallowReadingPath(jailDir, source),
                                             Zero32, <<"0">>, Ret(ok)))
              /\ SetsErrno(ok)
              /\ IF ResultOf(Ret(ok)) = Ok
                 THEN NextOperation /\ UNCHANGED jailResult
                 ELSE JailFails(ResultOf(Ret(ok))) /\ UNCHANGED <<opIndex, compIndex>>
    /\ UNCHANGED <<cwd, profile, program, data, verdict, path, jailDir, entries, result,
                   noNewPrivs, installed, caps>>

\* (mutant) the root directory is set to the root, not to the jail
JailChroot_KeepsRoot ==
    \E ok \in BOOLEAN :
        LibcStep("chroot", Call("chroot", <<>>, <<"/">>, Zero32, <<>>, Ret(ok)), "chdir")

\* ChrootJail::enter: chroot(directory)
JailChroot ==
    \E ok \in BOOLEAN :
        LibcStep("chroot", Call("chroot", <<>>, jailDir, Zero32, <<>>, Ret(ok)), "chdir")

\* (mutant) the result of set_current_dir is dropped
JailChdir_IgnoresFailure ==
    /\ pc = "chdir"
    /\ \E ok \in BOOLEAN :
          /\ calls' = Append(calls, Call("chdir", <<>>, <<".">>, Zero32, <<>>, Ret(ok)))
          /\ SetsErrno(ok)
          /\ cwd' = IF ok THEN ChangeDirectory(cwd, RootDirectory, <<".">>) ELSE cwd
          /\ pc' = "capset"
    /\ UNCHANGED <<profile, program, data, verdict, path, opIndex, compIndex, jailDir,
                   entries, jailResult, result, noNewPrivs, installed, caps>>

\* ChrootJail::enter: env::set_current_dir("."), Err(-1) when it fails
JailChdir ==
    /\ pc = "chdir"
    /\ \E ok \in BOOLEAN :
          /\ calls' = Append(calls, Call("chdir", <<>>, <<".">>, Zero32, <<>>, Ret(ok)))
          /\ SetsErrno(ok)
          /\ cwd' = IF ok THEN ChangeDirectory(cwd, RootDirectory, <<".">>) ELSE cwd
          /\ IF ok
             THEN pc' = "capset" /\ UNCHANGED jailResult
             ELSE JailFails(IoFailure)
    /\ UNCHANGED <<profile, program, data, verdict, path, opIndex, compIndex, jailDir,
                   entries, result, noNewPrivs, installed, caps>>

\* (mutant) activate returns Ok without the capset
DropCapabilities_Skipped ==
    /\ pc = "capset"
    /\ jailResult' = Ok
    /\ pc' = "jail_done"
    /\ UNCHANGED <<cwd, profile, program, data, verdict, path, opIndex, compIndex, jailDir,
                   entries, calls, result, noNewPrivs, installed, errno, caps>>

\* drop_capabilities: capset(version 3, pid 0; effective, permitted and
\* inheritable 0), the last step of activate: its result is activate's
DropCapabilities ==
    /\ pc = "capset"
    /\ \E ok \in BOOLEAN :
          /\ calls' = Append(calls, Call("capset", <<>>, <<>>, LINUX_CAPABILITY_VERSION_3,
                                         <<"0", "0", "0">>, Ret(ok)))
          /\ SetsErrno(ok)
          /\ caps' = IF ok THEN NoCapabilities ELSE caps
          /\ jailResult' = ResultOf(Ret(ok))
          /\ pc' = "jail_done"
    /\ UNCHANGED <<cwd, profile, program, data, verdict, path, opIndex, compIndex, jailDir,
                   entries, result, noNewPrivs, installed>>

(***************************************************************************)
(* The backend facade, ChildSandbox::activate: the jail, then the filter.  *)
(***************************************************************************)
\* after namespace::activate: its error is returned, or the filter is compiled
ChildSandboxActivate ==
    /\ pc = "jail_done"
    /\ IF jailResult = Ok
       THEN /\ program' = Filter_new(profile)
            /\ pc' = "no_new_privs"
            /\ UNCHANGED result
       ELSE /\ result' = jailResult
            /\ pc' = "done"
            /\ UNCHANGED program
    /\ UNCHANGED <<cwd, profile, data, verdict, path, opIndex, compIndex, jailDir, entries,
                   calls, jailResult, noNewPrivs, installed, errno, caps>>

\* (mutant) the result of the first prctl is not looked at
FilterActivateNoNewPrivs_IgnoresFailure ==
    /\ pc = "no_new_privs"
    /\ \E ok \in BOOLEAN :
          /\ calls' = Append(calls, Call("prctl", <<>>, <<>>, AsU32(PR_SET_NO_NEW_PRIVS),
                                         <<"1">>, Ret(ok)))
          /\ SetsErrno(ok)
          /\ noNewPrivs' = ok
          /\ pc' = "seccomp"
    /\ UNCHANGED <<cwd, profile, program, data, verdict, path, opIndex, compIndex, jailDir,
                   entries, jailResult, result, installed, caps>>

\* Filter::activate: prctl(PR_SET_NO_NEW_PRIVS, 1, 0, 0, 0)
FilterActivateNoNewPrivs ==
    /\ pc = "no_new_privs"
    /\ \E ok \in BOOLEAN :
          /\ calls' = Append(calls, Call("prctl", <<>>, <<>>, AsU32(PR_SET_NO_NEW_PRIVS),
                                         <<"1">>, Ret(ok)))
          /\ SetsErrno(ok)
          /\ IF Ret(ok) # 0
             THEN /\ result' = Err(Ret(ok))
                  /\ pc' = "done"
                  /\ UNCHANGED noNewPrivs
             ELSE /\ noNewPrivs' = TRUE
                  /\ pc' = "seccomp"
                  /\ UNCHANGED result
    /\ UNCHANGED <<cwd, profile, program, data, verdict, path, opIndex, compIndex, jailDir,
                   entries, jailResult, installed, caps>>

\* Filter::activate: prctl(PR_SET_SECCOMP, SECCOMP_MODE_FILTER, &program, -1, 0);
\* the kernel installs a filter only for a process with no_new_privs
FilterActivateSeccomp ==
    /\ pc = "seccomp"
    /\ \E ok \in BOOLEAN :
          /\ ok => noNewPrivs
          /\ calls' = Append(calls, Call("prctl", <<>>, <<>>, AsU32(PR_SET_SECCOMP),
                                         <<"SECCOMP_MODE_FILTER">>, Ret(ok)))
          /\ SetsErrno(ok)
          /\ result' = ResultOf(Ret(ok))
          /\ installed' = IF ok THEN program ELSE installed
          /\ pc' = "done"
    /\ UNCHANGED <<cwd, profile, program, data, verdict, path, opIndex, compIndex, jailDir,
                   entries, jailResult, noNewPrivs, caps>>

(***************************************************************************)
(* Inputs: the profiles handed to the compiler and the syscall records the *)
(* kernel hands to the installed program.                                  *)
(***************************************************************************)
RECURSIVE SeqsUpTo(_, _)
\* the sequences over S of length at most n
SeqsUpTo(S, n) ==
    IF n = 0 THEN {<<>>}
    ELSE LET shorter == SeqsUpTo(S, n - 1)
         IN  shorter \cup {Append(s, x) : s \in shorter, x \in S}

\* one operation of each kind; the compiler never looks inside a pattern
FilterOps ==
    {FileReadAll("Literal", <<"/", "etc", "hostname">>),
     FileReadMetadata("Subpath", <<"/", "bogus">>),
     NetworkOutbound("Tcp", <<>>),
     SystemInfoRead, SystemSocket, PlatformSpecific}

FilterProfiles == {Profile_new(ops) : ops \in SeqsUpTo(FilterOps, MaxFilterOps)}

\* every number a table of seccomp.rs names, and numbers none of them names:
\* fork 57, execve 59, kill 62, ptrace 101, setresuid 117, setresgid 119,
\* capset 126, prctl 157, chroot 161, mount 165, unshare 272,
\* set_robust_list 273, the x32 read
SyscallNumbers ==
    {0, 1, 2, 3, 4, 5, 7, 8, 9, 10, 11, 12, 15, 16, 21, 28, 41, 42, 44, 45, 47, 49,
     51, 56, 60, 89, 102, 131, 202, 204, 231, 307, 318,
     6, 57, 59, 62, 101, 117, 119, 126, 157, 161, 165, 272, 273, 1073741824}

\* the build's architecture and AUDIT_ARCH_I386, that of an int 0x80 entry
ArchWords == {ARCH_NR, AsU32(1073741827)}

\* <<arg0, arg1, arg2>>: clone flags / socket family in arg0, open flags / ioctl
\* request in arg1, socket protocol in arg2
\* the thread flags, every allowed open flag, FIONREAD, as the claims write them
ThreadFlags == 4001536
ReadOnlyFlags == 526592

\* an argument register with nothing above its low word, and with bit 32 set
Arg(n) == U64(Zero32, AsU32(n))
ArgHigh(n) == U64(AsU32(1), AsU32(n))

ArgVectors ==
    {<<Arg(ThreadFlags), Arg(0), Arg(0)>>,         \* thread clone; O_RDONLY
     <<Arg(ThreadFlags + 17), Arg(1), Arg(0)>>,    \* more than the thread flags; O_WRONLY
     <<Arg(ThreadFlags - 256), Arg(2), Arg(0)>>,   \* fewer than the thread flags; O_RDWR
     <<Arg(17), Arg(64), Arg(0)>>,                 \* fork's SIGCHLD, AF_PACKET; O_CREAT
     <<Arg(0), Arg(ReadOnlyFlags), Arg(0)>>,       \* every allowed open flag
     <<Arg(1), Arg(21531), Arg(0)>>,               \* AF_UNIX; FIONREAD
     <<Arg(2), Arg(21532), Arg(1)>>,               \* AF_INET
     <<Arg(10), Arg(ReadOnlyFlags + 1), Arg(0)>>,  \* AF_INET6; allowed flags and O_WRONLY
     <<Arg(16), U64(Zero32, <<32768, 0>>), Arg(0)>>,  \* AF_NETLINK, NETLINK_ROUTE; bit 31
     <<Arg(16), Arg(0), Arg(4)>>,                  \* AF_NETLINK, another protocol
     <<ArgHigh(ThreadFlags), ArgHigh(0), ArgHigh(0)>>,  \* bits above the low word
     <<ArgHigh(1), ArgHigh(21531), Arg(0)>>}

SyscallInputs ==
    {seccomp_data(AsU32(nr), arch, args) : nr \in SyscallNumbers, arch \in ArchWords,
                                    args \in ArgVectors}

NoData == seccomp_data(NoReturn, Zero32, <<Arg(0), Arg(0), Arg(0)>>)

\* the operations of the profiles handed to the activation
Operations ==
    {FileReadAll("Literal", <<"/", "etc", "hostname">>),
     FileReadAll("Subpath", <<"/", "usr">>),
     FileReadMetadata("Literal", <<"/", "etc", "passwd">>),
     FileReadMetadata("Subpath", <<"/", "bogus">>),
     NetworkOutbound("Tcp", <<>>),
     SystemInfoRead, SystemSocket, PlatformSpecific}

Profiles == {Profile_new(ops) : ops \in SeqsUpTo(Operations, MaxOps)}

\* no activation has begun
JailInit(at) ==
    /\ pc = at
    /\ opIndex = 1
    /\ compIndex = 1
    /\ jailDir = <<>>
    /\ entries = {}
    /\ calls = <<>>
    /\ jailResult = NoResult
    /\ result = NoResult
    /\ noNewPrivs = FALSE
    /\ installed = <<>>
    /\ errno = 0
    /\ caps = NoCapabilities

NotActivating == JailInit("none")

(***************************************************************************)
(* The sandboxed child after activation (tests/file-read-metadata.rs): it  *)
(* calls stat on a path.  The kernel runs the installed program on the     *)
(* syscall, then resolves the path from the process's root directory.      *)
(* TempDir's destructor, whose errors are ignored, is left out.            *)
(***************************************************************************)
\* the paths the child asks about: the root, the files and directories of the
\* host, the jail directory, and a path that does not exist
StatPaths ==
    {<<"/">>, <<"/", "etc", "passwd">>, <<"/", "etc", "hostname">>, <<"/", "etc">>,
     <<"/", "usr">>, <<"/", "tmp">>, TempDirPath, <<"/", "bogus">>}

\* the bind mounts of the process's mount namespace
BindMounts ==
    {calls[i] : i \in {j \in DOMAIN calls : /\ calls[j].call = "mount"
                                            /\ calls[j].text = <<"bind">>
                                            /\ calls[j].ret = 0}}

\* the path names something: the root itself, an entry created in the tmpfs
\* of the jail, a path at or under a bind mount whose source has it, or, with
\* the host's root, something of the host
Resolves(root, q) ==
    LET at == FromRoot(root, q)
    IN  \/ q = <<"/">>
        \/ \E m \in BindMounts :
              /\ IsPrefix(m.dst, at)
              /\ IsPrefix(root, m.dst)
              /\ HostKind(m.src \o SubSeq(at, Len(m.dst) + 1, Len(at))) # "absent"
        \/ root # <<"/">> /\ EntryExists(at)
        \/ root = <<"/">> /\ HostKind(at) # "absent"

\* allowance_test and prohibition_test after a successful activate:
\* path.stat().  A syscall the program does not allow kills the child; an
\* allowed one succeeds when the path resolves.
ChildStat ==
    /\ pc = "done"
    /\ result = Ok
    /\ \E q \in StatPaths :
          LET d == seccomp_data(AsU32(NR_stat), ARCH_NR, <<Arg(0), Arg(0), Arg(0)>>)
              r == RunFilter(installed, d)
              found == Resolves(RootDirectory, q)
          IN  /\ data' = d
              /\ verdict' = r.ret
              /\ path' = r.visited
              /\ IF r.ret = AsU32(SECCOMP_RET_ALLOW)
                 THEN /\ calls' = Append(calls, Call("stat", q, <<>>, Zero32, <<>>,
                                                    Ret(found)))
                      /\ SetsErrno(found)
                      /\ pc' = IF found THEN "stat_ok" ELSE "stat_failed"
                 ELSE /\ pc' = "killed"
                      /\ UNCHANGED <<calls, errno>>
    /\ UNCHANGED <<cwd, profile, program, opIndex, compIndex, jailDir, entries, jailResult,
                   result, noNewPrivs, installed, caps>>

(***************************************************************************)
(* FilterSpec: a profile is compiled and the kernel runs the program on    *)
(* syscall records.                                                        *)
(***************************************************************************)
FilterInit ==
    /\ profile \in FilterProfiles
    /\ program = <<>>
    /\ data = NoData
    /\ verdict = NoReturn
    /\ path = <<>>
    /\ NotActivating
    /\ cwd = <<"/">>

\* Filter::new(&profile)
FilterNew ==
    /\ program = <<>>
    /\ program' = Filter_new(profile)
    /\ UNCHANGED <<profile, data, verdict, path>>
    /\ UNCHANGED jailVars

\* the process enters a syscall and the kernel runs the program on its record
KernelRunFilter ==
    /\ program # <<>>
    /\ data = NoData
    /\ \E d \in SyscallInputs :
          LET r == RunFilter(program, d)
          IN  /\ data' = d
              /\ verdict' = r.ret
              /\ path' = r.visited
    /\ UNCHANGED <<profile, program>>
    /\ UNCHANGED jailVars

\* an allowed syscall returns to the process; a killed process makes no other
SyscallReturn ==
    /\ data # NoData
    /\ verdict = AsU32(SECCOMP_RET_ALLOW)
    /\ data' = NoData
    /\ verdict' = NoReturn
    /\ path' = <<>>
    /\ UNCHANGED <<profile, program>>
    /\ UNCHANGED jailVars

FilterNext == FilterNew \/ KernelRunFilter \/ SyscallReturn

FilterSpec == FilterInit /\ [][FilterNext]_vars

(***************************************************************************)
(* Spec: a child calls ChildSandbox::activate on a profile.                *)
(***************************************************************************)
Init ==
    /\ profile \in Profiles
    /\ program = <<>>
    /\ data = NoData
    /\ verdict = NoReturn
    /\ path = <<>>
    /\ JailInit("unshare")
    /\ cwd \in StartDirectories

Next ==
    \/ NamespaceNew
    \/ NamespaceInitSetgroups
    \/ NamespaceInitGidMap
    \/ NamespaceInitUidMap
    \/ SwitchSetresgid
    \/ SwitchSetresuid
    \/ JailTempDir
    \/ JailMountTmpfs
    \/ BindMountMkdir
    \/ BindMountTarget
    \/ BindMountMount
    \/ JailDisallowReading
    \/ JailChroot
    \/ JailChdir
    \/ DropCapabilities
    \/ ChildSandboxActivate
    \/ FilterActivateNoNewPrivs
    \/ FilterActivateSeccomp
    \/ ChildStat

Spec == Init /\ [][Next]_vars

(***************************************************************************)
(* The claims about the compiled filter, checked under FilterSpec.         *)
(***************************************************************************)
\* the kernel has run the program on a syscall record
Evaluated == data # NoData

\* AUDIT_ARCH_X86_64 = 0xc000_003e, as the kernel reports it
OnExpectedArch == Evaluated /\ data.arch = <<49152, 62>>

Nr(n) == data.nr = AsU32(n)
NrIn(S) == \E n \in S : Nr(n)

\* SECCOMP_RET_ALLOW = 0x7fff_0000 and SECCOMP_RET_KILL = 0
Allowed == verdict = <<32767, 0>>
Killed == verdict = <<0, 0>>

\* the run ended at the last instruction of the program, the epilogue
AtTerminalKill == Killed /\ path # <<>> /\ path[Len(path)] = Len(program)

\* the profile holds an operation of this kind
Grants(kind) == \E i \in DOMAIN profile.allowed_operations :
                    profile.allowed_operations[i].op = kind

\* the low words of the arguments
Arg0 == Lo32(data.args[1])
Arg1 == Lo32(data.args[2])
Arg2 == Lo32(data.args[3])

\* no bit of the word outside the bits of n
OnlyBitsOf(word, n) == And32(word, Not32(AsU32(n))) = Zero32

AlwaysAllowedTable == {ALLOWED_SYSCALLS[i] : i \in DOMAIN ALLOWED_SYSCALLS}

OpenPermitted == Nr(2) /\ Grants("FileReadAll") /\ OnlyBitsOf(Arg1, ReadOnlyFlags)
IoctlPermitted == Nr(16) /\ Grants("FileReadAll") /\ Arg1 = AsU32(21531)
SocketPermitted ==
    /\ Nr(41) /\ Grants("SystemSocket")
    /\ \/ Arg0 \in {AsU32(1), AsU32(2), AsU32(10)}
       \/ Arg0 = AsU32(16) /\ Arg2 = AsU32(0)
ClonePermitted == Nr(56) /\ Arg0 = AsU32(ThreadFlags)

\* the syscall is in the always-allowed table or in a conditional set that an
\* operation of the profile enables, with its argument constraint satisfied
Permitted ==
    \/ NrIn(AlwaysAllowedTable)
    \/ Grants("FileReadMetadata") /\ NrIn({4, 5, 21, 89})
    \/ Grants("FileReadAll") /\ Nr(8)
    \/ OpenPermitted
    \/ IoctlPermitted
    \/ Grants("NetworkOutbound") /\ NrIn({49, 42})
    \/ Grants("SystemSocket") /\ Nr(51)
    \/ SocketPermitted
    \/ ClonePermitted

C2_CloneOnlyThreads ==
    OnExpectedArch =>
        /\ Nr(56) => (Allowed <=> Arg0 = AsU32(ThreadFlags))
        /\ Nr(56) /\ Arg0 # AsU32(ThreadFlags) => Killed
        /\ Nr(57) => Killed

C2_Witness ==
    /\ OnExpectedArch /\ Nr(56) /\ Killed
    /\ data.args[1] = Arg(ThreadFlags + 17)
    /\ profile.allowed_operations # <<>>

\* C3: open (2) is allowed exactly when the profile holds a FileReadAll and the
\* low word of argument 1 has no bit outside O_RDONLY|O_CLOEXEC|O_NOCTTY|
\* O_NONBLOCK (0x80900), and killed otherwise.
C3_OpenReadOnly ==
    OnExpectedArch /\ Nr(2) =>
        /\ Allowed <=> (Grants("FileReadAll") /\ OnlyBitsOf(Arg1, ReadOnlyFlags))
        /\ ~Allowed => Killed

C3_Witness ==
    /\ OnExpectedArch /\ Nr(2) /\ Killed
    /\ Grants("FileReadAll") /\ data.args[2] = Arg(2)

\* C4: socket (41) is allowed exactly when the profile holds SystemSocket and
\* the family (low word of argument 0) is AF_UNIX, AF_INET or AF_INET6, or is
\* AF_NETLINK with the protocol (low word of argument 2) NETLINK_ROUTE, and
\* killed otherwise.
C4_SocketFamilies ==
    OnExpectedArch /\ Nr(41) =>
        /\ Allowed <=>
              /\ Grants("SystemSocket")
              /\ \/ Arg0 \in {AsU32(1), AsU32(2), AsU32(10)}
                 \/ Arg0 = AsU32(16) /\ Arg2 = AsU32(0)
        /\ ~Allowed => Killed

C4_Witness ==
    /\ OnExpectedArch /\ Nr(41) /\ Killed
    /\ Grants("SystemSocket") /\ Arg0 = AsU32(17)

\* C5: on the expected architecture every numbered syscall of the always-allowed
\* table is allowed, under every profile and for every argument vector.
C5_AlwaysAllowed ==
    OnExpectedArch
    /\ NrIn({0, 1, 3, 7, 9, 10, 11, 12, 15, 28, 44, 45, 47, 60, 102, 131, 202, 204,
             231, 307, 318})
    => Allowed

C5_Witness ==
    /\ OnExpectedArch /\ Nr(318) /\ Allowed
    /\ data.args[1] = ArgHigh(ThreadFlags)
    /\ profile.allowed_operations = <<>>

\* C6: set_robust_list (273 on x86_64) is allowed under every profile, whatever
\* its arguments.
C6_SetRobustListAllowed == OnExpectedArch /\ Nr(273) => Allowed

\* C7: stat (4), fstat (5), access (21) and readlink (89) are allowed exactly
\* when the profile holds a FileReadMetadata, and killed otherwise: FileReadAll
\* alone does not enable them.
C7_MetadataSyscalls ==
    OnExpectedArch /\ NrIn({4, 5, 21, 89}) =>
        /\ Allowed <=> Grants("FileReadMetadata")
        /\ ~Allowed => Killed

C7_Witness ==
    /\ OnExpectedArch /\ Nr(4) /\ Killed
    /\ Grants("FileReadAll") /\ ~Grants("FileReadMetadata")

\* C8: bind (49) and connect (42) are allowed exactly when the profile holds a
\* NetworkOutbound, and killed otherwise: SystemSocket alone does not enable
\* them.
C8_NetworkSyscalls ==
    OnExpectedArch /\ NrIn({49, 42}) =>
        /\ Allowed <=> Grants("NetworkOutbound")
        /\ ~Allowed => Killed

C8_Witness ==
    /\ OnExpectedArch /\ Nr(42) /\ Killed
    /\ Grants("SystemSocket") /\ ~Grants("NetworkOutbound")

\* C9: a record of another architecture is killed by the prologue, whatever the
\* syscall and its arguments; on the expected architecture the run skips the
\* prologue's kill and goes on to the first syscall test.
C9_ArchitectureCheck ==
    Evaluated =>
        /\ ~OnExpectedArch => Killed /\ path = <<1, 2, 3>>
        /\ OnExpectedArch => /\ Len(path) >= 4
                             /\ SubSeq(path, 1, 4) = <<1, 2, 4, 5>>
                             /\ program[4] = EXAMINE_SYSCALL

C9_Witness ==
    /\ Evaluated /\ ~OnExpectedArch /\ Nr(0) /\ Killed
    /\ profile.allowed_operations # <<>>

(***************************************************************************)
(* The claims about the activation, checked under Spec.                    *)
(***************************************************************************)
\* the steps of the jail builder are all the calls but the two prctl calls
IsJailCall(c) == c.call # "prctl"

\* the calls ChildSandbox::activate made: all but the stat of the child
ActivateCalls ==
    IF pc \in {"stat_ok", "stat_failed"} THEN SubSeq(calls, 1, Len(calls) - 1)
    ELSE calls

\* C10: the jail builder runs before the filter install.  Every prctl call of
\* the install comes after a capset that returned 0 and after the jail builder
\* returned Ok, and once a jail step has failed the filter is neither compiled
\* nor installed and no_new_privs is not set.
C10_JailBeforeFilter ==
    /\ \A i \in DOMAIN ActivateCalls :
          ActivateCalls[i].call = "prctl" =>
              /\ jailResult = Ok
              /\ \E j \in 1..(i - 1) : /\ ActivateCalls[j].call = "capset"
                                       /\ ActivateCalls[j].ret = 0
              /\ \A j \in (i + 1)..Len(ActivateCalls) : ActivateCalls[j].call = "prctl"
    /\ (\E i \in DOMAIN ActivateCalls :
            IsJailCall(ActivateCalls[i]) /\ ActivateCalls[i].ret # 0) =>
          /\ installed = <<>>
          /\ program = <<>>
          /\ ~noNewPrivs
          /\ result # Ok

C10_Witness ==
    /\ pc = "done" /\ result = Ok
    /\ installed # <<>> /\ installed = Filter_new(profile)
    /\ \E i \in DOMAIN calls : calls[i].call = "mount" /\ calls[i].text = <<"bind">>

(***************************************************************************)
(* The order of the jail builder's kernel transitions.                     *)
(***************************************************************************)
\* a kernel transition as the order speaks of it: the call, what it reads,
\* what it acts on and what it is given
Transition(name, src, dst, text) == [src |-> src, dst |-> dst, text |-> text, call |-> name]

\* the calls that are transitions of the sequence; the creation of directories
\* and of mount targets prepares a bind mount
IsTransition(c) ==
    c.call \in {"unshare", "write", "setresgid", "setresuid", "mount", "chmod",
                "chroot", "chdir", "capset"}

IsBindMount(c) == c.call = "mount" /\ c.text = <<"bind">>

\* a bind mount is known by its source and a chmod by its place
TransitionOf(c) ==
    IF IsBindMount(c) THEN Transition("mount", c.src, <<>>, c.text)
    ELSE IF c.call = "chmod" THEN Transition("chmod", <<>>, <<>>, c.text)
    ELSE Transition(c.call, c.src, c.dst, c.text)

\* the transitions the jail builder has made, in order
JailTransitions ==
    LET made == SelectSeq(ActivateCalls, IsTransition)
    IN  [i \in DOMAIN made |-> TransitionOf(made[i])]

RECURSIVE ExpectedMounts(_, _)
\* for each file operation from i on, in profile order: its bind mount, and
\* chmod 0 after it for FileReadMetadata
ExpectedMounts(ops, i) ==
    IF i > Len(ops) THEN <<>>
    ELSE (IF ops[i].op = "FileReadAll"
          THEN <<Transition("mount", ops[i].path, <<>>, <<"bind">>)>>
          ELSE IF ops[i].op = "FileReadMetadata"
          THEN <<Transition("mount", ops[i].path, <<>>, <<"bind">>),
                 Transition("chmod", <<>>, <<>>, <<"0">>)>>
          ELSE <<>>) \o ExpectedMounts(ops, i + 1)

\* the total order of the transitions of a run in which every step succeeds
ExpectedTransitions(p) ==
    <<Transition("unshare", <<>>, <<>>, <<>>),
      Transition("write", <<>>, <<"/", "proc", "self", "setgroups">>, <<"deny">>),
      Transition("write", <<>>, <<"/", "proc", "self", "gid_map">>, <<"1", ParentGid, "1">>),
      Transition("write", <<>>, <<"/", "proc", "self", "uid_map">>, <<"1", ParentUid, "1">>),
      Transition("setresgid", <<>>, <<>>, <<"1", "1", "1">>),
      Transition("setresuid", <<>>, <<>>, <<"1", "1", "1">>),
      Transition("mount", <<"tmpfs">>, TempDirPath, <<"tmpfs">>)>>
    \o ExpectedMounts(allowed_operations(p), 1)
    \o <<Transition("chroot", <<>>, TempDirPath, <<>>),
         Transition("chdir", <<>>, <<".">>, <<>>),
         Transition("capset", <<>>, <<>>, <<"0", "0", "0">>)>>

\* C11: in a run of the jail builder in which every step succeeds, the kernel
\* transitions are exactly, once each and in this order: unshare; "deny" to
\* /proc/self/setgroups; gid_map; uid_map; setresgid(1,1,1); setresuid(1,1,1);
\* the tmpfs mount on the new temporary directory; for each file operation in
\* profile order its bind mount, then chmod 0 for FileReadMetadata; chroot;
\* chdir; capset with all-zero sets.  At every moment the transitions made so
\* far are a prefix of that order.
C11_TransitionOrder ==
    /\ IsPrefix(JailTransitions, ExpectedTransitions(profile))
    /\ jailResult = Ok => JailTransitions = ExpectedTransitions(profile)

C11_Witness ==
    /\ jailResult = Ok
    /\ \E i \in DOMAIN calls : calls[i].call = "chmod" /\ calls[i].ret = 0
    /\ Len(JailTransitions) = 12

(***************************************************************************)
(* Failure of a jail step.                                                 *)
(***************************************************************************)
\* the jail builder made a call that failed
FailedJailCall(i) == IsJailCall(ActivateCalls[i]) /\ ActivateCalls[i].ret # 0

\* C12: fail-stop.  A call of the jail builder that fails is the last call of
\* the activation: no later step runs, and namespace::activate has returned an
\* error.  It returns Ok only when every call it made returned 0.
C12_FailStop ==
    /\ \A i \in DOMAIN ActivateCalls :
          FailedJailCall(i) =>
              /\ i = Len(ActivateCalls)
              /\ pc \in {"jail_done", "done"}
              /\ jailResult.status = "Err"
    /\ jailResult = Ok =>
          \A i \in DOMAIN ActivateCalls :
              IsJailCall(ActivateCalls[i]) => ActivateCalls[i].ret = 0

C12_Witness ==
    /\ calls # <<>>
    /\ IsBindMount(calls[Len(calls)])
    /\ calls[Len(calls)].ret # 0
    /\ jailResult.status = "Err"
    /\ pc = "jail_done"

\* the kernel steps an error is to tell apart
StepKinds ==
    {"Unshare", "MapWrite", "SetId", "TmpfsMount", "BindMount", "Chmod", "Chroot",
     "CapDrop"}

\* the step a call of the jail builder belongs to: the creation of the
\* temporary directory goes with the tmpfs mount, the creation of directories
\* and of the target with the bind mount, chdir with chroot
StepKind(c) ==
    IF c.call = "unshare" THEN "Unshare"
    ELSE IF c.call = "write" \/ (c.call = "open" /\ IsPrefix(<<"/", "proc">>, c.dst))
    THEN "MapWrite"
    ELSE IF c.call \in {"setresgid", "setresuid"} THEN "SetId"
    ELSE IF c.call = "mount" /\ ~IsBindMount(c) THEN "TmpfsMount"
    ELSE IF c.call = "mkdir" /\ c.dst = TempDirPath THEN "TmpfsMount"
    ELSE IF c.call = "chmod" THEN "Chmod"
    ELSE IF c.call \in {"chroot", "chdir"} THEN "Chroot"
    ELSE IF c.call = "capset" THEN "CapDrop"
    ELSE "BindMount"

\* what namespace::activate returns when the libc call of a step fails
ErrorOfStep(kind) ==
    IF kind = "MapWrite" THEN InitError ELSE ResultOf(Ret(FALSE))

\* C13: when a jail step fails, the error namespace::activate returns carries
\* the errno of the failing call and identifies the step: it is not the value
\* that the failure of a step of another kind produces.
C13_ErrorIdentifiesStep ==
    jailResult.status = "Err" =>
        LET failed == ActivateCalls[Len(ActivateCalls)]
        IN  /\ jailResult.err = errno
            /\ \A kind \in StepKinds \ {StepKind(failed)} :
                  ErrorOfStep(kind) # jailResult

(***************************************************************************)
(* Profiles the platform cannot enforce.                                   *)
(***************************************************************************)
\* the backend has a mechanism for the operation: the filter it compiles, the
\* namespaces it unshares or the jail it populates depends on its presence
HasEnforcement(operation) ==
    LET with == Profile_new(<<operation>>)
        without == Profile_new(<<>>)
    IN  \/ Filter_new(with) # Filter_new(without)
        \/ UnshareFlags(with) # UnshareFlags(without)
        \/ IsFileOperation(operation)

\* C14: Profile::new is fallible: a list that holds an operation with no
\* enforcement mechanism on the platform is rejected, so no Profile holds such
\* an operation.
C14_ProfileNewFallible ==
    \A i \in DOMAIN allowed_operations(profile) :
        HasEnforcement(allowed_operations(profile)[i])

(***************************************************************************)
(* What the sandboxed child can stat.                                      *)
(***************************************************************************)
\* the child made its stat call, or was killed making it
ChildStatDone == pc \in {"stat_ok", "stat_failed", "killed"}

\* the path of the stat call that the child's filter allowed
StatPath == calls[Len(calls)].src

\* the profile of allowance_profile: [FileReadMetadata(Literal(p))]
IsAllowanceProfile(p) ==
    allowed_operations(profile) = <<FileReadMetadata("Literal", p)>>

\* C15: allowance.  For an existing regular file p, the child that activates
\* [FileReadMetadata(Literal(p))] and then calls stat(p) is not killed and its
\* stat succeeds.
C15_Allowance ==
    \A p \in StatPaths :
        /\ HostKind(p) = "file"
        /\ IsAllowanceProfile(p)
        /\ ChildStatDone
        /\ pc # "killed" => StatPath = p
        => pc = "stat_ok"

\* a path pattern of the profile covers the path
Covered(q) ==
    \E i \in DOMAIN allowed_operations(profile) :
        LET operation == allowed_operations(profile)[i]
        IN  /\ IsFileOperation(operation)
            /\ \/ operation.pat = "Literal" /\ q = operation.path
               \/ operation.pat = "Subpath" /\ IsPrefix(operation.path, q)

\* the path names the root directory of the jail, or a directory or a mount
\* target that populating the jail created in it
JailScaffold(q) ==
    \/ q = <<"/">>
    \/ jailDir # <<>> /\ EntryExists(jailDir \o Components(q))

ActivationSyscalls == {157, 165, 161, 272, 117, 119, 126}

\* C17: the installed filter cannot be removed or replaced.  For every profile
\* the compiled filter returns KILL for prctl and for the syscalls of the jail
\* builder (mount, chroot, unshare, setresuid, setresgid, capset), whatever
\* their arguments and the architecture of the call.
C17_ActivationSyscallsKilled ==
    Evaluated /\ NrIn(ActivationSyscalls) => Killed

C17_Witness ==
    /\ OnExpectedArch
    /\ Nr(157)
    /\ AtTerminalKill
    /\ Grants("SystemSocket")
    /\ Grants("FileReadAll")

(***************************************************************************)
(* The capabilities after the jail.                                        *)
(***************************************************************************)
\* capset(version 0x2008_0522; effective, permitted, inheritable all 0) that
\* returned 0
IsCapabilityDrop(c) ==
    /\ c.call = "capset"
    /\ c.flags = <<8200, 1314>>
    /\ c.text = <<"0", "0", "0">>
    /\ c.ret = 0

\* C18: whenever namespace::activate returned Ok the effective, permitted and
\* inheritable capability sets of the process are empty: the capset that
\* empties them is the last call of the jail builder, only the prctl calls of
\* the filter install follow it, and nothing raises a capability afterwards.
C18_CapabilitiesDropped ==
    jailResult = Ok =>
        /\ caps.effective = {} /\ caps.permitted = {} /\ caps.inheritable = {}
        /\ \E i \in DOMAIN ActivateCalls :
              /\ IsCapabilityDrop(ActivateCalls[i])
              /\ \A j \in (i + 1)..Len(ActivateCalls) : ActivateCalls[j].call = "prctl"

C18_Witness ==
    /\ jailResult = Ok
    /\ pc = "jail_done"
    /\ caps = NoCapabilities
    /\ \E i \in DOMAIN calls : calls[i].call = "unshare" /\ calls[i].ret = 0

(***************************************************************************)
(* Where the jail's bind mounts and mode changes land.                     *)
(***************************************************************************)
\* the path in the jail that mirrors p: the jail root joined with p
JailSide(p) == jailDir \o Components(p)

StrictlyBeneath(root, p) == IsPrefix(root, p) /\ p # root

\* C19: every bind mount has a file operation's path p as its source and the
\* jail root joined with p, strictly beneath the jail root, as its target;
\* every parent directory of the target has been created in the jail before
\* it, and the target too, as a directory if p is one and as a file otherwise.
C19_BindMountTarget ==
    \A i \in DOMAIN calls :
        IsBindMount(calls[i]) =>
            LET p == calls[i].src
            IN  /\ \E k \in DOMAIN allowed_operations(profile) :
                      /\ IsFileOperation(allowed_operations(profile)[k])
                      /\ allowed_operations(profile)[k].path = p
                /\ calls[i].dst = JailSide(p)
                /\ StrictlyBeneath(jailDir, calls[i].dst)
                /\ \A n \in 1..(Len(Components(p)) - 1) :
                      EntryIsDirectory(jailDir \o SubSeq(Components(p), 1, n))
                /\ \E e \in entries : e.path = JailSide(p) /\ e.kind = HostKind(p)

\* C20: chmod comes right after the successful bind mount of a
\* FileReadMetadata operation on p, with mode 0 and on the jail-side entry that
\* mirrors p, never on a path outside the jail root; there is no chmod for
\* another operation.
C20_ChmodJailSide ==
    \A i \in DOMAIN calls :
        calls[i].call = "chmod" =>
            /\ calls[i].text = <<"0">>
            /\ i > 1
            /\ IsBindMount(calls[i - 1]) /\ calls[i - 1].ret = 0
            /\ \E k \in DOMAIN allowed_operations(profile) :
                  /\ allowed_operations(profile)[k].op = "FileReadMetadata"
                  /\ allowed_operations(profile)[k].path = calls[i - 1].src
            /\ calls[i].dst = JailSide(calls[i - 1].src)
            /\ StrictlyBeneath(jailDir, calls[i].dst)

(***************************************************************************)
(* The namespaces of the jail.                                             *)
(***************************************************************************)
\* the flag word has every bit of the flag
HasFlag(word, flag) == And32(word, AsU32(flag)) = AsU32(flag)

\* the compiled filter of the profile kills the syscall on the build's
\* architecture
FilterKills(p, nr) ==
    RunFilter(Filter_new(p), seccomp_data(AsU32(nr), ARCH_NR, <<Arg(0), Arg(0), Arg(0)>>)).ret
        = AsU32(SECCOMP_RET_KILL)

\* C21: the flags passed to unshare always hold CLONE_NEWUSER, CLONE_NEWNS,
\* CLONE_NEWIPC, CLONE_NEWUTS and CLONE_FS, and hold CLONE_NEWNET if and only
\* if the profile has no NetworkOutbound operation, which are the profiles
\* whose filter kills bind and connect.
C21_UnshareFlags ==
    \A i \in DOMAIN calls :
        calls[i].call = "unshare" =>
            /\ \A flag \in {CLONE_NEWUSER, CLONE_NEWNS, CLONE_NEWIPC, CLONE_NEWUTS, CLONE_FS} :
                  HasFlag(calls[i].flags, flag)
            /\ HasFlag(calls[i].flags, CLONE_NEWNET) <=> ~Grants("NetworkOutbound")
            /\ HasFlag(calls[i].flags, CLONE_NEWNET) <=>
                  FilterKills(profile, NR_bind) /\ FilterKills(profile, NR_connect)

C21_Witness ==
    /\ Grants("NetworkOutbound")
    /\ \E i \in DOMAIN calls :
          /\ calls[i].call = "unshare" /\ calls[i].ret = 0
          /\ ~HasFlag(calls[i].flags, CLONE_NEWNET)
          /\ HasFlag(calls[i].flags, CLONE_NEWUSER)

(***************************************************************************)
(* The install of the filter.                                              *)
(***************************************************************************)
\* the prctl calls made so far, in order
PrctlCalls == SelectSeq(ActivateCalls, LAMBDA c : c.call = "prctl")

IsSetNoNewPrivs(c) == c.flags = AsU32(PR_SET_NO_NEW_PRIVS) /\ c.text = <<"1">>
IsSetSeccomp(c) == c.flags = AsU32(PR_SET_SECCOMP) /\ c.text = <<"SECCOMP_MODE_FILTER">>

\* C22: Filter::activate issues prctl(PR_SET_NO_NEW_PRIVS, 1) first and
\* prctl(PR_SET_SECCOMP, SECCOMP_MODE_FILTER, program) second.  When the first
\* call fails the second is never issued and an error is returned; Ok is
\* returned only when both calls returned 0, and then the program in the
\* process's seccomp slot is the compiled one.
C22_InstallOrder ==
    /\ Len(PrctlCalls) <= 2
    /\ Len(PrctlCalls) >= 1 => IsSetNoNewPrivs(PrctlCalls[1])
    /\ Len(PrctlCalls) = 2 => PrctlCalls[1].ret = 0 /\ IsSetSeccomp(PrctlCalls[2])
    /\ (Len(PrctlCalls) >= 1 /\ PrctlCalls[1].ret # 0) =>
          /\ Len(PrctlCalls) = 1
          /\ result.status = "Err"
          /\ installed = <<>>
    /\ result = Ok =>
          /\ Len(PrctlCalls) = 2
          /\ PrctlCalls[1].ret = 0 /\ PrctlCalls[2].ret = 0
          /\ noNewPrivs
          /\ installed = program /\ program # <<>>

C22_Witness ==
    /\ Len(PrctlCalls) = 2
    /\ PrctlCalls[2].ret # 0
    /\ result.status = "Err"
    /\ noNewPrivs

(***************************************************************************)
(* The shape of the compiled program.                                      *)
(***************************************************************************)
IsReturn(ins) == ins.code = RET + K
IsLoad(ins) == ins.code = LD + W + ABS
IsJump(ins) == ins.code \in {JMP + JEQ + K, JMP + JSET + K}

\* where the instruction at i (1-based) goes on: the positions after it
Successors(prog, i) ==
    IF IsReturn(prog[i]) THEN {}
    ELSE IF IsJump(prog[i]) THEN {i + 1 + prog[i].jt, i + 1 + prog[i].jf}
    ELSE {i + 1}

\* a jump that an assembler helper patched: one offset is left at 0, the other
\* skips the body, which is not empty, ends with the allowing return and holds
\* no jump to beyond its end
IsPatchedJump(prog, i) ==
    LET off == prog[i].jt + prog[i].jf
        target == i + 1 + off
    IN  /\ prog[i].jt = 0 \/ prog[i].jf = 0
        /\ off >= 1
        /\ target <= Len(prog)
        /\ prog[target - 1] = sock_filter(RET + K, 0, 0, <<32767, 0>>)
        /\ \A j \in (i + 1)..(target - 1) : \A s \in Successors(prog, j) : s <= target

RECURSIVE FailingPath(_, _)
\* where the run from i ends when every test fails, that is, every patched
\* jump skips its body
FailingPath(prog, i) ==
    IF i > Len(prog) THEN i
    ELSE IF IsReturn(prog[i]) THEN i
    ELSE IF IsJump(prog[i]) THEN FailingPath(prog, i + 1 + prog[i].jt + prog[i].jf)
    ELSE FailingPath(prog, i + 1)

\* C23: the compiled program is well formed.  It is short enough for every
\* len - index - 1 to fit the u8 of a jump offset; it starts with the
\* architecture check (load the architecture word, skip the kill when it is
\* AUDIT_ARCH_X86_64, kill) and ends with the kill return; every later jump is
\* a patched one that lands right after its body, inside the program; every
\* instruction goes on to a later position inside the program, so every path
\* ends at a return; and the path after the architecture check on which every
\* test fails ends at the last instruction.
C23_WellFormedProgram ==
    (program # <<>> /\ data = NoData) =>
        /\ Len(program) <= 256
        /\ program[1] = sock_filter(LD + W + ABS, 0, 0, <<0, 4>>)
        /\ program[2] = sock_filter(JMP + JEQ + K, 1, 0, <<49152, 62>>)
        /\ program[3] = sock_filter(RET + K, 0, 0, <<0, 0>>)
        /\ program[Len(program)] = sock_filter(RET + K, 0, 0, <<0, 0>>)
        /\ \A i \in DOMAIN program :
              /\ IsReturn(program[i]) \/ IsLoad(program[i]) \/ IsJump(program[i])
              /\ program[i].jt <= 255 /\ program[i].jf <= 255
              /\ \A s \in Successors(program, i) : s > i /\ s <= Len(program)
              /\ (IsJump(program[i]) /\ i > 3) => IsPatchedJump(program, i)
        /\ FailingPath(program, 4) = Len(program)

C23_Witness ==
    /\ program # <<>> /\ data = NoData
    /\ Grants("SystemSocket") /\ Grants("FileReadAll")
    /\ \E i \in DOMAIN program : program[i].code = JMP + JSET + K /\ program[i].jt = 1
    /\ \E i \in DOMAIN program : program[i].code = JMP + JEQ + K /\ program[i].jf > 3
    /\ Len(program) > 100

(***************************************************************************)
(* ioctl and lseek.                                                        *)
(***************************************************************************)
\* C24: on the build's architecture the compiled filter allows ioctl (16) if
\* and only if the profile holds a FileReadAll operation and the low 32 bits
\* of argument 1 are FIONREAD (0x541b), and allows lseek (8) if and only if
\* the profile holds a FileReadAll operation; every other ioctl is killed.
C24_IoctlAndLseek ==
    OnExpectedArch =>
        /\ Nr(16) => (Allowed <=> (Grants("FileReadAll") /\ Arg1 = <<0, 21531>>))
        /\ Nr(16) => (Allowed \/ Killed)
        /\ Nr(8) => (Allowed <=> Grants("FileReadAll"))

C24_Witness ==
    /\ OnExpectedArch
    /\ Nr(16)
    /\ Grants("FileReadAll")
    /\ Arg1 = <<0, 21531>>
    /\ Hi32(data.args[2]) # Zero32
    /\ Allowed

(***************************************************************************)
(* The working directory of the jailed process.                            *)
(***************************************************************************)
\* ChrootJail::enter returned Ok: its chroot and its chdir returned 0
EnterReturnedOk ==
    \E i \in DOMAIN ActivateCalls :
        /\ ActivateCalls[i].call = "chdir" /\ ActivateCalls[i].ret = 0
        /\ \E j \in 1..(i - 1) : ActivateCalls[j].call = "chroot" /\ ActivateCalls[j].ret = 0

\* C25: after ChrootJail::enter returned Ok the working directory of the
\* process lies inside its new root, the jail's tmpfs, whatever it was before
\* the activation, so that a relative path leads to nothing outside the jail.
C25_WorkingDirectoryInJail ==
    EnterReturnedOk =>
        /\ RootDirectory = jailDir
        /\ IsPrefix(RootDirectory, cwd)

(***************************************************************************)
(* Profiles with several file operations.                                  *)
(***************************************************************************)
\* the file operations of the profile, in order
FileOperations == SelectSeq(allowed_operations(profile), IsFileOperation)

\* two or more file operations, on paths that exist and of which none lies at
\* or under another
SeveralDisjointSources ==
    /\ Len(FileOperations) >= 2
    /\ \A i \in DOMAIN FileOperations : HostKind(FileOperations[i].path) # "absent"
    /\ \A i, j \in DOMAIN FileOperations :
          i # j => ~IsPrefix(FileOperations[i].path, FileOperations[j].path)

\* C26: with two or more file operations on existing paths that do not
\* overlap, no step of the population fails on a directory or target that an
\* earlier operation of the profile created in the jail, and a population that
\* succeeded made one bind mount for each file operation.
C26_SeveralFileOperations ==
    SeveralDisjointSources =>
        /\ \A i \in DOMAIN ActivateCalls :
              (ActivateCalls[i].call \in {"mkdir", "open"} /\ ActivateCalls[i].ret # 0)
                  => ~EntryExists(ActivateCalls[i].dst)
        /\ jailResult = Ok =>
              Len(SelectSeq(ActivateCalls, IsBindMount)) = Len(FileOperations)
====
